---------------------------- MODULE Spec2Model ----------------------------
(***************************************************************************)
(* A model of the network panel's search scope                            *)
(* (front_end/panels/network/NetworkSearchScope.ts): NetworkSearchScope,   *)
(* UIRequestLocation and NetworkSearchResult.                              *)
(*                                                                         *)
(* Strings are sequences of one-character strings.  A query token is a     *)
(* regular expression without metacharacters, so that `string.match(re)'   *)
(* finds the leftmost occurrence of the token and match[0] is the token.   *)
(*                                                                         *)
(* The specifications of the module:                                       *)
(*   Spec / LiveSpec        one performSearch run over a request log       *)
(*   StopSpec               the same run with stopSearch() calls           *)
(*   FailSpec               the same run with body searches that reject    *)
(*   MatchSpec              the multi-token matcher on drawn inputs        *)
(*   IndexSpec / LiveIndexSpec   performIndexing and the microtask queue   *)
(*   RegistrySpec           the setting registry of Common.Settings        *)
(*   ViewSpec               a run and the accessors of its results         *)
(*   OverlapSpec            two overlapping runs on one scope              *)
(*   KindSpec               issueKindViewSortPriority (IssueKindView)      *)
(***************************************************************************)
EXTENDS Integers, Sequences, FiniteSets, TLC

VARIABLES
    \* ---- one performSearch run -------------------------------------
    networkLog,     \* SDK.NetworkLog.instance().requests(): sequence of request ids
    searchConfig,   \* [queries, ignoreCase, fileQueries]
    progress,       \* the Progress token of the run
    pc,             \* position of performSearch: "idle", "joining", "finished",
                    \* or "rejected" when its promise was rejected
    requests,       \* the filtered candidates (line 33), in log order
    tasks,          \* one entry per element of requests: the _searchRequest promise
    events,         \* the calls the run makes and the resolutions it receives, in order
    \* ---- the matcher on its own ------------------------------------
    mString, mQueries, mIgnoreCase, mRun,
    \* ---- performIndexing -------------------------------------------
    idxCalls,       \* per Progress token: performIndexing calls that have returned
    idxDone,        \* per Progress token: progress.done() calls received
    microtasks,     \* the microtask queue: tokens whose done() is still queued
    \* ---- stopSearch ------------------------------------------------
    stopSearchAt,   \* the positions of performSearch at which stopSearch() was called
    \* ---- the setting registry --------------------------------------
    registeredSettings,  \* the names of the registered settings, in registration order
    settingOutcome,      \* the last registry call and how it ended
    \* ---- the accessors of a result ---------------------------------
    viewed,         \* the last accessor call on a result handed out, and its value
    \* ---- a second run on the same scope ----------------------------
    runB,           \* [progress, pc, requests, tasks, events] of that run
    \* ---- issueKindViewSortPriority ---------------------------------
    kindViews,      \* the kinds of three IssueKindViews
    priorities      \* the comparisons made of them: [a, b, value]

searchVars == <<networkLog, searchConfig, progress, pc, requests, tasks, events>>
matchVars  == <<mString, mQueries, mIgnoreCase, mRun>>
indexVars  == <<idxCalls, idxDone, microtasks>>
stopVars   == <<stopSearchAt>>
registryVars == <<registeredSettings, settingOutcome>>
viewVars   == <<viewed>>
overlapVars == <<runB>>
kindVars   == <<kindViews, priorities>>
otherVars  == <<viewVars, overlapVars, kindVars>>
vars       == <<searchVars, matchVars, indexVars, stopVars, registryVars, otherVars>>

(***************************************************************************)
(* Bounds of the model.                                                    *)
(***************************************************************************)
MaxRequests  == 3   \* longest request log
MaxStrLen    == 3   \* longest string handed to the matcher in MatchSpec
MaxTokens    == 2   \* most tokens of a query in MatchSpec
MaxIndexCalls == 3  \* performIndexing calls in one behaviour of IndexSpec

Null == [isNull |-> TRUE]

(***************************************************************************)
(* Strings.                                                                *)
(***************************************************************************)
RECURSIVE SeqsUpTo(_, _)
SeqsUpTo(S, n) ==
    IF n = 0 THEN {<<>>}
    ELSE LET shorter == SeqsUpTo(S, n - 1)
         IN  shorter \cup {Append(s, c) : s \in {t \in shorter : Len(t) = n - 1}, c \in S}

ToLower(c) ==
    CASE c = "A" -> "a"
      [] c = "B" -> "b"
      [] OTHER   -> c

\* The canonical form the 'i' flag compares characters in (line 91).
CaseFold(c, ignoreCase) == IF ignoreCase THEN ToLower(c) ELSE c

\* String.prototype.substr(pos) with one argument: the suffix from pos.
Substr(string, pos) == SubSeq(string, pos + 1, Len(string))

\* The token occurs in string at the zero-based offset i.
OccursAt(string, token, i, ignoreCase) ==
    /\ i >= 0
    /\ i + Len(token) <= Len(string)
    /\ \A k \in 1..Len(token) :
          CaseFold(string[i + k], ignoreCase) = CaseFold(token[k], ignoreCase)

NoMatch == -1

\* string.match(regExp): the index of the leftmost match, NoMatch for null.
MatchIndex(string, token, ignoreCase) ==
    LET hits == {i \in 0..Len(string) : OccursAt(string, token, i, ignoreCase)}
    IN  IF hits = {} THEN NoMatch
        ELSE CHOOSE i \in hits : \A j \in hits : i <= j

\* A matcher that tests only `!match'.
RejectsOnlyNull(index) == index = NoMatch

\* Line 96: `!match || !match.index'.
Rejects(index) == index = NoMatch \/ index = 0

\* A matcher that searches every token in the whole string.
SearchStartWhole(pos, index, token) == 0

\* Line 99: pos += match.index + match[0].length.
SearchStart(pos, index, token) == pos + index + Len(token)

(***************************************************************************)
(* stringMatchesQuery (lines 90-102).  The loop over the tokens, from      *)
(* token k with the search position pos.  Besides the returned boolean it  *)
(* records the loop's locals: the match.index of every iteration run and   *)
(* the value of pos each iteration started from.                           *)
(***************************************************************************)
RECURSIVE MatchLoop(_, _, _, _, _)
MatchLoop(string, queries, ignoreCase, k, pos) ==
    IF k > Len(queries)
    THEN [result |-> TRUE, indices |-> <<>>, starts |-> <<>>]
    ELSE LET index == MatchIndex(Substr(string, pos), queries[k], ignoreCase)
         IN  IF Rejects(index)
             THEN [result |-> FALSE, indices |-> <<index>>, starts |-> <<pos>>]
             ELSE LET rest == MatchLoop(string, queries, ignoreCase, k + 1,
                                        SearchStart(pos, index, queries[k]))
                  IN  [result  |-> rest.result,
                       indices |-> <<index>> \o rest.indices,
                       starts  |-> <<pos>> \o rest.starts]

\* A matcher that rejects the empty string before looking at the tokens.
stringMatchesQueryNonEmpty(string, queries, ignoreCase) ==
    IF string = <<>> THEN [result |-> FALSE, indices |-> <<>>, starts |-> <<>>]
    ELSE MatchLoop(string, queries, ignoreCase, 1, 0)

stringMatchesQueryRun(string, queries, ignoreCase) ==
    MatchLoop(string, queries, ignoreCase, 1, 0)

stringMatchesQuery(string, queries, ignoreCase) ==
    stringMatchesQueryRun(string, queries, ignoreCase).result


(***************************************************************************)
(* The request log.  A request is read-only for the scope: its url, its    *)
(* display name, its content type, its headers, and what its               *)
(* searchInContent resolves to (an external operation, line 61).           *)
(***************************************************************************)
Header(name, value) == [name |-> name, value |-> value]
SearchMatch(lineNumber, lineContent) ==
    [lineNumber |-> lineNumber, lineContent |-> lineContent]

Request1 ==
    [url |-> <<"x", "a">>, displayName |-> <<"c", ".", "j", "s">>, isTextType |-> TRUE,
     requestHeaders  |-> << Header(<<"h">>, <<"a">>) >>,
     responseHeaders |-> << Header(<<"a">>, <<"b">>) >>,
     searchInContent |-> << SearchMatch(0, <<"b", "a">>), SearchMatch(2, <<"b">>) >>]
Request2 ==
    [url |-> <<"a", "b">>, displayName |-> <<"a", ".", "j", "s">>, isTextType |-> TRUE,
     requestHeaders  |-> << >>,
     responseHeaders |-> << Header(<<"s">>, <<"a">>), Header(<<"t">>, <<"A">>) >>,
     searchInContent |-> << SearchMatch(1, <<"b">>) >>]
Request3 ==
    [url |-> <<"x", "b">>, displayName |-> <<"b", ".", "j", "s">>, isTextType |-> TRUE,
     requestHeaders  |-> << Header(<<"k">>, <<"b">>), Header(<<"m">>, <<"a">>) >>,
     responseHeaders |-> << >>,
     searchInContent |-> << >>]
Request4 ==
    [url |-> <<"b", "a">>, displayName |-> <<"a", ".", "j", "s">>, isTextType |-> FALSE,
     requestHeaders  |-> << >>,
     responseHeaders |-> << >>,
     searchInContent |-> << SearchMatch(0, <<"a">>) >>]
Request5 ==
    [url |-> <<"b">>, displayName |-> <<"b", ".", "j", "s">>, isTextType |-> TRUE,
     requestHeaders  |-> << >>,
     responseHeaders |-> << >>,
     searchInContent |-> << >>]

Catalogue == <<Request1, Request2, Request3, Request4, Request5>>
RequestIds == DOMAIN Catalogue

\* The logs: sequences of distinct requests, at most MaxRequests long.
NetworkLogs ==
    {log \in SeqsUpTo(RequestIds, MaxRequests) :
        \A i, j \in DOMAIN log : i # j => log[i] # log[j]}

\* searchConfig.filePathMatchesFileQuery(url), called at line 34: every path
\* passes without a file query, otherwise the path must contain each of them.
FilePathMatchesFileQuery(config, url) ==
    \A i \in DOMAIN config.fileQueries :
        MatchIndex(url, config.fileQueries[i], config.ignoreCase) # NoMatch

SearchConfigs ==
    { [queries |-> << >>,          ignoreCase |-> FALSE, fileQueries |-> << >>],
      [queries |-> << <<"a">> >>,  ignoreCase |-> FALSE, fileQueries |-> << >>],
      [queries |-> << <<"a">> >>,  ignoreCase |-> TRUE,  fileQueries |-> << <<"x">> >>] }

(***************************************************************************)
(* UIRequestLocation (lines 109-145).                                      *)
(***************************************************************************)
UIRequestLocation(request, requestHeader, responseHeader, searchMatch, urlMatch) ==
    [request |-> request, requestHeader |-> requestHeader,
     responseHeader |-> responseHeader, searchMatch |-> searchMatch,
     isUrlMatch |-> urlMatch]

\* A response-header location that also carries the header as request header.
responseHeaderMatchBothSet(request, header) ==
    UIRequestLocation(request, header, header, Null, FALSE)

requestHeaderMatch(request, header)  == UIRequestLocation(request, header, Null, Null, FALSE)
responseHeaderMatch(request, header) == UIRequestLocation(request, Null, header, Null, FALSE)
bodyMatch(request, searchMatch)      == UIRequestLocation(request, Null, Null, searchMatch, FALSE)
urlMatch(request)                    == UIRequestLocation(request, Null, Null, Null, TRUE)

(***************************************************************************)
(* NetworkSearchResult (lines 147-202).                                    *)
(***************************************************************************)
NetworkSearchResult(request, locations) == [request |-> request, locations |-> locations]

matchesCount(result) == Len(result.locations)
label(result)        == Catalogue[result.request].displayName

\* What an accessor returns: a string or, from matchLabel, a number.
StringValue(string) == [string |-> string]
NumberValue(number) == [number |-> number]

\* i18nString(UIStrings.url), line 17.
UrlLabel == <<"U", "R", "L">>

\* this._locations[index]: JavaScript counts the elements from 0.
LocationAt(result, index) == result.locations[index + 1]

\* location.requestHeader || location.responseHeader (lines 177, 193).
HeaderOf(location) ==
    IF location.requestHeader # Null THEN location.requestHeader
    ELSE location.responseHeader

\* The header's name returned in place of its value.
matchLineContentHeaderName(result, index) ==
    LET location == LocationAt(result, index)
    IN  IF location.isUrlMatch THEN StringValue(Catalogue[result.request].url)
        ELSE IF HeaderOf(location) # Null THEN StringValue(HeaderOf(location).name)
        ELSE StringValue(location.searchMatch.lineContent)

\* Lines 172-182.
matchLineContent(result, index) ==
    LET location == LocationAt(result, index)
    IN  IF location.isUrlMatch THEN StringValue(Catalogue[result.request].url)
        ELSE IF HeaderOf(location) # Null THEN StringValue(HeaderOf(location).value)
        ELSE StringValue(location.searchMatch.lineContent)

\* The zero-based line number returned as it is.
matchLabelZeroBased(result, index) ==
    LET location == LocationAt(result, index)
    IN  IF location.isUrlMatch THEN StringValue(UrlLabel)
        ELSE IF HeaderOf(location) # Null
             THEN StringValue(HeaderOf(location).name \o <<":">>)
        ELSE NumberValue(location.searchMatch.lineNumber)

\* Lines 188-201.
matchLabel(result, index) ==
    LET location == LocationAt(result, index)
    IN  IF location.isUrlMatch THEN StringValue(UrlLabel)
        ELSE IF HeaderOf(location) # Null
             THEN StringValue(HeaderOf(location).name \o <<":">>)
        ELSE NumberValue(location.searchMatch.lineNumber + 1)

(***************************************************************************)
(* _searchRequest after its await (lines 63-84).                           *)
(***************************************************************************)
\* Line 87: the string `${header.name}: ${header.value}'.
HeaderString(header) == header.name \o <<":", " ">> \o header.value

headerMatchesQuery(config, header) ==
    stringMatchesQuery(HeaderString(header), config.queries, config.ignoreCase)

SelectHeaders(config, headers) ==
    SelectSeq(headers, LAMBDA header : headerMatchesQuery(config, header))

\* Op applied to the value of an expression that is evaluated once.
Bind(value, Op(_)) == CHOOSE r \in { Op(v) : v \in {value} } : TRUE

MapSeq(seq, Op(_)) == Bind(seq, LAMBDA s : [i \in DOMAIN s |-> Op(s[i])])

\* Body matches pushed before the header matches.
BuildLocationsBodyFirst(config, id, bodyMatches) ==
    LET request == Catalogue[id]
    IN  MapSeq(bodyMatches, LAMBDA match : bodyMatch(id, match))
        \o (IF stringMatchesQuery(request.url, config.queries, config.ignoreCase)
            THEN << urlMatch(id) >> ELSE << >>)
        \o MapSeq(SelectHeaders(config, request.requestHeaders),
                  LAMBDA header : requestHeaderMatch(id, header))
        \o MapSeq(SelectHeaders(config, request.responseHeaders),
                  LAMBDA header : responseHeaderMatch(id, header))

\* Lines 66-82: the locations, in the order they are pushed.
\* The matcher applied once more to the lines the body search returned.
BuildLocationsBodyRefiltered(config, id, bodyMatches) ==
    LET request == Catalogue[id]
    IN  (IF stringMatchesQuery(request.url, config.queries, config.ignoreCase)
         THEN << urlMatch(id) >> ELSE << >>)
        \o MapSeq(SelectHeaders(config, request.requestHeaders),
                  LAMBDA header : requestHeaderMatch(id, header))
        \o MapSeq(SelectHeaders(config, request.responseHeaders),
                  LAMBDA header : responseHeaderMatch(id, header))
        \o MapSeq(SelectSeq(bodyMatches,
                            LAMBDA match : stringMatchesQuery(match.lineContent,
                                              config.queries, config.ignoreCase)),
                  LAMBDA match : bodyMatch(id, match))

BuildLocations(config, id, bodyMatches) ==
    LET request == Catalogue[id]
    IN  (IF stringMatchesQuery(request.url, config.queries, config.ignoreCase)
         THEN << urlMatch(id) >> ELSE << >>)
        \o MapSeq(SelectHeaders(config, request.requestHeaders),
                  LAMBDA header : requestHeaderMatch(id, header))
        \o MapSeq(SelectHeaders(config, request.responseHeaders),
                  LAMBDA header : responseHeaderMatch(id, header))
        \o MapSeq(bodyMatches, LAMBDA match : bodyMatch(id, match))

Event(op, arg, by) == [op |-> op, arg |-> arg, by |-> by]

\* Lines 67-79: the calls of stringMatchesQuery on the URL and of
\* headerMatchesQuery on every request header and every response header.
CheckEvents(id, k) ==
    << Event("stringMatchesQuery", Catalogue[id].url, k) >>
    \o MapSeq(Catalogue[id].requestHeaders,
              LAMBDA header : Event("headerMatchesQuery", header, k))
    \o MapSeq(Catalogue[id].responseHeaders,
              LAMBDA header : Event("headerMatchesQuery", header, k))

\* worked() called before the cancellation check.
SearchRequestRestAlwaysWorked(config, id, k, bodyMatches, prog, evs) ==
    [progress |-> [prog EXCEPT !.worked = @ + 1],
     events   |-> Append(evs, Event("worked", Null, k)),
     result   |-> IF prog.canceled THEN Null
                  ELSE NetworkSearchResult(id, BuildLocations(config, id, bodyMatches))]

\* Lines 63-84, run by task k for request id once bodyMatches is known:
\* the progress, the calls made and the value the promise resolves to.
SearchRequestRest(config, id, k, bodyMatches, prog, evs) ==
    IF prog.canceled
    THEN [progress |-> prog, events |-> evs, result |-> Null]
    ELSE [progress |-> [prog EXCEPT !.worked = @ + 1],
          events   |-> evs \o CheckEvents(id, k) \o << Event("worked", Null, k) >>,
          result   |-> NetworkSearchResult(id, BuildLocations(config, id, bodyMatches))]

(***************************************************************************)
(* The sort of line 46: Array.prototype.sort, which is stable, with the    *)
(* comparator r1.label().localeCompare(r2.label()).                        *)
(***************************************************************************)
Collation == <<" ", ".", ":", "a", "A", "b", "B", "c", "h", "j", "k", "m", "s", "t", "x", "y", "z">>
CollationRank(c) == CHOOSE i \in DOMAIN Collation : Collation[i] = c

\* String.prototype.localeCompare: negative, zero or positive.  The strings
\* are compared at the first place where they differ, a proper prefix first.
localeCompare(a, b) ==
    Bind({i \in DOMAIN a \cap DOMAIN b : a[i] # b[i]}, LAMBDA differ :
        IF differ # {}
        THEN Bind(CHOOSE d \in differ : \A e \in differ : d <= e, LAMBDA i :
                IF CollationRank(a[i]) < CollationRank(b[i]) THEN -1 ELSE 1)
        ELSE IF Len(a) < Len(b) THEN -1
        ELSE IF Len(a) > Len(b) THEN 1
        ELSE 0)

CompareResults(r1, r2) == localeCompare(label(r1), label(r2))

\* The results left in the order of their promises.
SortByLabelSkipped(results) == results

\* A sort that turns the order of equal elements round.
SortByLabelTiesReversed(results) ==
    Bind(results, LAMBDA rs :
        Bind([i \in DOMAIN rs |->
                Cardinality({j \in DOMAIN rs :
                    Bind(CompareResults(rs[j], rs[i]),
                         LAMBDA order : order < 0 \/ (order = 0 /\ j > i))})],
             LAMBDA before :
                [p \in DOMAIN rs |-> rs[CHOOSE i \in DOMAIN rs : before[i] = p - 1]]))

\* Line 46: results.sort(...).  The sort is stable: element i is moved behind
\* the elements that compare less and the equal ones that stood before it.
SortByLabel(results) ==
    Bind(results, LAMBDA rs :
        Bind([i \in DOMAIN rs |->
                Cardinality({j \in DOMAIN rs :
                    Bind(CompareResults(rs[j], rs[i]),
                         LAMBDA order : order < 0 \/ (order = 0 /\ j < i))})],
             LAMBDA before :
                [p \in DOMAIN rs |-> rs[CHOOSE i \in DOMAIN rs : before[i] = p - 1]]))

\* Every sorted result handed to the callback.
EmittedUnfiltered(sorted) == sorted

\* Lines 46-50: the results handed to searchResultCallback, in call order.
Emitted(sorted) == SelectSeq(sorted, LAMBDA result : matchesCount(result) > 0)

(***************************************************************************)
(* performSearch after its await (lines 41-52), given the promises' values *)
(* in the order of the promises.                                           *)
(***************************************************************************)
\* Line 41.
NonNull(resultsWithNull) == SelectSeq(resultsWithNull, LAMBDA result : result # Null)

\* The run ends without a call of searchFinishedCallback.
CompleteSearchWithoutFinished(results, prog, evs) ==
    [progress |-> [prog EXCEPT !.doneCalls = @ + 1],
     events   |-> evs
                  \o MapSeq(Emitted(SortByLabel(results)),
                            LAMBDA result : Event("onResult", result, 0))
                  \o << Event("done", Null, 0) >>]

\* progress.done() called before the results are handed out.
CompleteSearchDoneFirst(results, prog, evs) ==
    [progress |-> [prog EXCEPT !.doneCalls = @ + 1],
     events   |-> evs
                  \o << Event("done", Null, 0) >>
                  \o MapSeq(Emitted(SortByLabel(results)),
                            LAMBDA result : Event("onResult", result, 0))
                  \o << Event("onFinished", TRUE, 0) >>]

\* Lines 46-52.
CompleteSearch(results, prog, evs) ==
    [progress |-> [prog EXCEPT !.doneCalls = @ + 1],
     events   |-> evs
                  \o MapSeq(Emitted(SortByLabel(results)),
                            LAMBDA result : Event("onResult", result, 0))
                  \o << Event("done", Null, 0), Event("onFinished", TRUE, 0) >>]

\* Line 44 without its return: the canceled branch falls through.
AfterJoinNoReturn(results, prog, evs) ==
    LET checked == Append(evs, Event("isCanceled", prog.canceled, 0))
    IN  IF prog.canceled
        THEN CompleteSearch(results, prog, Append(checked, Event("onFinished", FALSE, 0)))
        ELSE CompleteSearch(results, prog, checked)

\* progress.done() called in the canceled branch too.
AfterJoinDoneWhenCanceled(results, prog, evs) ==
    LET checked == Append(evs, Event("isCanceled", prog.canceled, 0))
    IN  IF prog.canceled
        THEN [progress |-> [prog EXCEPT !.doneCalls = @ + 1],
              events   |-> checked \o << Event("done", Null, 0),
                                         Event("onFinished", FALSE, 0) >>]
        ELSE CompleteSearch(results, prog, checked)

\* Lines 42-52, with the results of line 41.
AfterJoin(results, prog, evs) ==
    LET checked == Append(evs, Event("isCanceled", prog.canceled, 0))
    IN  IF prog.canceled
        THEN [progress |-> prog,
              events   |-> Append(checked, Event("onFinished", FALSE, 0))]
        ELSE CompleteSearch(results, prog, checked)

(***************************************************************************)
(* _searchRequest up to its await (lines 58-62), and performSearch up to   *)
(* its await (lines 32-40).                                                *)
(***************************************************************************)
Task(state, result) == [state |-> state, result |-> result]

\* searchInContent called whatever the content type.
StartTaskAlwaysSearches(config, id, k, acc) ==
    [progress |-> acc.progress,
     events   |-> Append(acc.events, Event("searchInContent", id, k)),
     tasks    |-> Append(acc.tasks, Task("awaiting", Null))]

\* A task that suspends before line 63 whatever the content type.
StartTaskAlwaysSuspends(config, id, k, acc) ==
    [progress |-> acc.progress,
     events   |-> IF Catalogue[id].isTextType
                  THEN Append(acc.events, Event("searchInContent", id, k))
                  ELSE acc.events,
     tasks    |-> Append(acc.tasks, Task("awaiting", Null))]

\* The URL and header checks made before searchInContent is called.
StartTaskChecksFirst(config, id, k, acc) ==
    IF Catalogue[id].isTextType
    THEN [progress |-> acc.progress,
          events   |-> acc.events \o CheckEvents(id, k)
                       \o << Event("searchInContent", id, k) >>,
          tasks    |-> Append(acc.tasks, Task("awaiting", Null))]
    ELSE LET rest == SearchRequestRest(config, id, k, << >>, acc.progress,
                        Append(acc.events, Event("isCanceled", acc.progress.canceled, k)))
         IN  [progress |-> rest.progress,
              events   |-> rest.events,
              tasks    |-> Append(acc.tasks, Task("returned", rest.result))]

\* Task k is started for request id.  A text request has searchInContent
\* called and the task suspends; any other runs lines 63-84 at once.
StartTask(config, id, k, acc) ==
    IF Catalogue[id].isTextType
    THEN [progress |-> acc.progress,
          events   |-> Append(acc.events, Event("searchInContent", id, k)),
          tasks    |-> Append(acc.tasks, Task("awaiting", Null))]
    ELSE LET rest == SearchRequestRest(config, id, k, << >>, acc.progress,
                        Append(acc.events, Event("isCanceled", acc.progress.canceled, k)))
         IN  [progress |-> rest.progress,
              events   |-> rest.events,
              tasks    |-> Append(acc.tasks, Task("returned", rest.result))]

\* Only the task of the first candidate is started.
LaunchAllFirstOnly(config, reqs, k, acc) ==
    IF k > Len(reqs) THEN acc ELSE StartTask(config, reqs[k], k, acc)

\* The loop of lines 36-39.
RECURSIVE LaunchAll(_, _, _, _)
LaunchAll(config, reqs, k, acc) ==
    IF k > Len(reqs) THEN acc
    ELSE LaunchAll(config, reqs, k + 1, StartTask(config, reqs[k], k, acc))

\* The path predicate not applied.
FilterRequestsSkipped(config, log) == log

\* Lines 33-34.
FilterRequests(config, log) ==
    SelectSeq(log, LAMBDA id : FilePathMatchesFileQuery(config, Catalogue[id].url))

\* The calls of one kind that the run has made, and their arguments.
EventsOf(op) == SelectSeq(events, LAMBDA e : e.op = op)
ArgsOf(op)   == MapSeq(EventsOf(op), LAMBDA e : e.arg)

(***************************************************************************)
(* The actions of a performSearch run.                                     *)
(***************************************************************************)
IdleProgress ==
    [canceled |-> FALSE, totalWork |-> 0, setTotalWorkCalls |-> 0,
     worked |-> 0, doneCalls |-> 0]

\* performSearch is called: lines 32-40, up to `await Promise.all(promises)'.
PerformSearch ==
    /\ pc = "idle"
    /\ LET filtered == FilterRequests(searchConfig, networkLog)
           acc == LaunchAll(searchConfig, filtered, 1,
                     [progress |-> [progress EXCEPT !.totalWork = Len(filtered),
                                                    !.setTotalWorkCalls = @ + 1],
                      events   |-> Append(events, Event("setTotalWork", Len(filtered), 0)),
                      tasks    |-> << >>])
       IN  /\ requests' = filtered
           /\ progress' = acc.progress
           /\ events' = acc.events
           /\ tasks' = acc.tasks
    /\ pc' = "joining"
    /\ UNCHANGED <<networkLog, searchConfig, matchVars, indexVars, stopVars, registryVars, otherVars>>

\* The searchInContent promise of task k resolves and the task runs on from
\* its await to its return (lines 61-84).
BodySearchResolved(k) ==
    /\ pc \in {"joining", "rejected"}
    /\ k \in DOMAIN tasks
    /\ tasks[k].state = "awaiting"
    /\ LET bodyMatches == Catalogue[requests[k]].searchInContent
           rest == SearchRequestRest(searchConfig, requests[k], k, bodyMatches, progress,
                      events \o << Event("resolved", bodyMatches, k),
                                   Event("isCanceled", progress.canceled, k) >>)
       IN  /\ progress' = rest.progress
           /\ events' = rest.events
           /\ tasks' = [tasks EXCEPT ![k] = Task("returned", rest.result)]
    /\ UNCHANGED <<networkLog, searchConfig, pc, requests, matchVars, indexVars, stopVars, registryVars, otherVars>>

\* Promise.all gives up waiting once the token is canceled.
PromiseAllFulfilledOrCanceled ==
    progress.canceled \/ \A k \in DOMAIN tasks : tasks[k].state = "returned"

\* Line 40: Promise.all(promises) is fulfilled when every promise is.
PromiseAllFulfilled == \A k \in DOMAIN tasks : tasks[k].state = "returned"

\* Every promise has resolved: performSearch runs on from its await to its
\* end (lines 40-53).
Join ==
    /\ pc = "joining"
    /\ PromiseAllFulfilled
    /\ \E results \in { NonNull(MapSeq(tasks, LAMBDA task : task.result)) } :
       \E after \in { AfterJoin(results, progress, events) } :
           /\ progress' = after.progress
           /\ events' = after.events
    /\ pc' = "finished"
    /\ UNCHANGED <<networkLog, searchConfig, requests, tasks, matchVars, indexVars, stopVars, registryVars, otherVars>>

\* A token whose owner may take the cancellation back.
CancelToggles ==
    /\ progress' = [progress EXCEPT !.canceled = ~@]
    /\ UNCHANGED <<networkLog, searchConfig, pc, requests, tasks, events,
                   matchVars, indexVars, stopVars, registryVars, otherVars>>

\* The owner of the Progress token cancels it; a canceled token stays canceled.
Cancel ==
    /\ ~progress.canceled
    /\ progress' = [progress EXCEPT !.canceled = TRUE]
    /\ UNCHANGED <<networkLog, searchConfig, pc, requests, tasks, events,
                   matchVars, indexVars, stopVars, registryVars, otherVars>>

(***************************************************************************)
(* stopSearch (lines 105-106): its body is empty.  stopSearchAt records    *)
(* where performSearch stood at each call.                                 *)
(***************************************************************************)
\* stopSearch cancels the Progress token of the run.
StopSearchCancels ==
    /\ stopSearchAt' = stopSearchAt \cup {pc}
    /\ progress' = [progress EXCEPT !.canceled = TRUE]
    /\ UNCHANGED <<networkLog, searchConfig, pc, requests, tasks, events,
                   matchVars, indexVars, registryVars, otherVars>>

StopSearch ==
    /\ stopSearchAt' = stopSearchAt \cup {pc}
    /\ UNCHANGED <<searchVars, matchVars, indexVars, registryVars, otherVars>>

(***************************************************************************)
(* The consumer of a result handed to searchResultCallback calls its       *)
(* accessors with an index below matchesCount().                           *)
(***************************************************************************)
CallMatchLabel ==
    /\ \E r \in DOMAIN ArgsOf("onResult") :
       \E result \in { ArgsOf("onResult")[r] } :
       \E index \in 0..(matchesCount(result) - 1) :
          viewed' = [op |-> "matchLabel", result |-> result, index |-> index,
                     value |-> matchLabel(result, index)]
    /\ UNCHANGED <<searchVars, matchVars, indexVars, stopVars, registryVars,
                   overlapVars, kindVars>>

CallMatchLineContent ==
    /\ \E r \in DOMAIN ArgsOf("onResult") :
       \E result \in { ArgsOf("onResult")[r] } :
       \E index \in 0..(matchesCount(result) - 1) :
          viewed' = [op |-> "matchLineContent", result |-> result, index |-> index,
                     value |-> matchLineContent(result, index)]
    /\ UNCHANGED <<searchVars, matchVars, indexVars, stopVars, registryVars,
                   overlapVars, kindVars>>

(***************************************************************************)
(* A second performSearch call on the same scope, with the same query and  *)
(* a Progress token of its own, while the first run may be under way.  The *)
(* scope has no field: the run lives in the locals of performSearch and    *)
(* _searchRequest, kept in runB, and takes the same steps as the first.    *)
(***************************************************************************)
\* Lines 32-40 for the second run.
StartedRunB ==
    LET filtered == FilterRequests(searchConfig, networkLog)
        acc == LaunchAll(searchConfig, filtered, 1,
                  [progress |-> [runB.progress EXCEPT !.totalWork = Len(filtered),
                                                      !.setTotalWorkCalls = @ + 1],
                   events   |-> Append(runB.events,
                                       Event("setTotalWork", Len(filtered), 0)),
                   tasks    |-> << >>])
    IN  [progress |-> acc.progress, pc |-> "joining", requests |-> filtered,
         tasks |-> acc.tasks, events |-> acc.events]

\* A scope that keeps the token of its run and cancels it when the next
\* performSearch call arrives.
PerformSearchBStopsEarlierRun ==
    /\ runB.pc = "idle"
    /\ \E started \in { StartedRunB } : runB' = started
    /\ progress' = [progress EXCEPT !.canceled = TRUE]
    /\ UNCHANGED <<networkLog, searchConfig, pc, requests, tasks, events,
                   matchVars, indexVars, stopVars, registryVars, viewVars, kindVars>>

PerformSearchB ==
    /\ runB.pc = "idle"
    /\ \E started \in { StartedRunB } : runB' = started
    /\ UNCHANGED <<searchVars, matchVars, indexVars, stopVars, registryVars,
                   viewVars, kindVars>>

BodySearchResolvedB(k) ==
    /\ runB.pc = "joining"
    /\ k \in DOMAIN runB.tasks
    /\ runB.tasks[k].state = "awaiting"
    /\ \E bodyMatches \in { Catalogue[runB.requests[k]].searchInContent } :
       \E rest \in { SearchRequestRest(searchConfig, runB.requests[k], k, bodyMatches,
                        runB.progress,
                        runB.events \o << Event("resolved", bodyMatches, k),
                                          Event("isCanceled", runB.progress.canceled, k) >>) } :
          runB' = [runB EXCEPT !.progress = rest.progress,
                               !.events = rest.events,
                               !.tasks[k] = Task("returned", rest.result)]
    /\ UNCHANGED <<searchVars, matchVars, indexVars, stopVars, registryVars,
                   viewVars, kindVars>>

JoinB ==
    /\ runB.pc = "joining"
    /\ \A k \in DOMAIN runB.tasks : runB.tasks[k].state = "returned"
    /\ \E results \in { NonNull(MapSeq(runB.tasks, LAMBDA task : task.result)) } :
       \E after \in { AfterJoin(results, runB.progress, runB.events) } :
          runB' = [runB EXCEPT !.progress = after.progress,
                               !.events = after.events,
                               !.pc = "finished"]
    /\ UNCHANGED <<searchVars, matchVars, indexVars, stopVars, registryVars,
                   viewVars, kindVars>>

CancelB ==
    /\ ~runB.progress.canceled
    /\ runB' = [runB EXCEPT !.progress.canceled = TRUE]
    /\ UNCHANGED <<searchVars, matchVars, indexVars, stopVars, registryVars,
                   viewVars, kindVars>>

(***************************************************************************)
(* A body search that fails.  The searchInContent promise of task k is     *)
(* rejected: the await of line 60 throws inside _searchRequest, which has  *)
(* no try/catch, so the task's promise is rejected and lines 63-84 do not  *)
(* run.  Promise.all (line 40) is rejected as soon as one promise is: the  *)
(* await throws inside performSearch, which has no try/catch either, so    *)
(* lines 41-52 do not run and the promise of performSearch is rejected.    *)
(***************************************************************************)
BodySearchRejected(k) ==
    /\ pc \in {"joining", "rejected"}
    /\ k \in DOMAIN tasks
    /\ tasks[k].state = "awaiting"
    /\ tasks' = [tasks EXCEPT ![k] = Task("rejected", Null)]
    /\ events' = Append(events, Event("rejected", Null, k))
    /\ UNCHANGED <<networkLog, searchConfig, progress, pc, requests,
                   matchVars, indexVars, stopVars, registryVars, otherVars>>

PromiseAllRejected == \E k \in DOMAIN tasks : tasks[k].state = "rejected"

JoinRejected ==
    /\ pc = "joining"
    /\ PromiseAllRejected
    /\ pc' = "rejected"
    /\ UNCHANGED <<networkLog, searchConfig, progress, requests, tasks, events,
                   matchVars, indexVars, stopVars, registryVars, otherVars>>

(***************************************************************************)
(* The matcher applied to drawn inputs.                                    *)
(***************************************************************************)
StringAlphabet == {"a", "b"}
MatchStrings ==
    SeqsUpTo(StringAlphabet, MaxStrLen)
        \cup { <<"x", "y", "z">>, <<"A", "b">>, <<"b", "A", "B">> }
QueryTokens == { << >>, <<"a">>, <<"b">>, <<"a", "b">>, <<"x">> }
MatchQueries == SeqsUpTo(QueryTokens, MaxTokens)

ApplyMatcher ==
    /\ mRun = Null
    /\ mRun' = stringMatchesQueryRun(mString, mQueries, mIgnoreCase)
    /\ UNCHANGED <<mString, mQueries, mIgnoreCase, searchVars, indexVars,
                   stopVars, registryVars, otherVars>>

(***************************************************************************)
(* performIndexing (lines 22-26) and the microtask queue.                  *)
(***************************************************************************)
ProgressTokens == {"p1", "p2"}

\* progress.done() called before performIndexing returns.
performIndexingSync(token) ==
    /\ idxCalls' = [idxCalls EXCEPT ![token] = @ + 1]
    /\ idxDone' = [idxDone EXCEPT ![token] = @ + 1]
    /\ UNCHANGED microtasks

\* Lines 22-26: the callback is queued and performIndexing returns.
performIndexing(token) ==
    /\ idxCalls' = [idxCalls EXCEPT ![token] = @ + 1]
    /\ microtasks' = Append(microtasks, token)
    /\ UNCHANGED idxDone

CallPerformIndexing ==
    /\ \E token \in ProgressTokens :
          /\ idxCalls[token] < MaxIndexCalls
          /\ performIndexing(token)
    /\ UNCHANGED <<searchVars, matchVars, stopVars, registryVars, otherVars>>

\* The event loop runs the oldest queued microtask: line 24.
RunMicrotask ==
    /\ microtasks # << >>
    /\ idxDone' = [idxDone EXCEPT ![Head(microtasks)] = @ + 1]
    /\ microtasks' = Tail(microtasks)
    /\ UNCHANGED <<idxCalls, searchVars, matchVars, stopVars, registryVars, otherVars>>

(***************************************************************************)
(* The setting registry of Common.Settings, as the tests of                *)
(* setting_registration_test.ts use it: registerSettingExtension throws on *)
(* a name that is registered, maybeRemoveSettingExtension removes the      *)
(* registration of a name and tells whether there was one.                 *)
(***************************************************************************)
SettingNames == {"mockSetting", "secondSetting", "thirdSetting", "fourthSetting"}

Range(seq) == {seq[i] : i \in DOMAIN seq}

\* The registration is added whether or not the name is registered.
registerSettingExtensionUnchecked(registry, settingName) ==
    [registry |-> Append(registry, settingName), threw |-> FALSE]

registerSettingExtension(registry, settingName) ==
    IF settingName \in Range(registry)
    THEN [registry |-> registry, threw |-> TRUE]
    ELSE [registry |-> Append(registry, settingName), threw |-> FALSE]

maybeRemoveSettingExtension(registry, settingName) ==
    IF settingName \in Range(registry)
    THEN [registry |-> SelectSeq(registry, LAMBDA name : name # settingName),
          result   |-> TRUE]
    ELSE [registry |-> registry, result |-> FALSE]

NoSettingCall == [op |-> "none", settingName |-> "", ok |-> TRUE]

RegisterSetting ==
    /\ \E settingName \in SettingNames :
       \E call \in { registerSettingExtension(registeredSettings, settingName) } :
          /\ registeredSettings' = call.registry
          /\ settingOutcome' = [op |-> "register", settingName |-> settingName,
                                ok |-> ~call.threw]
    /\ UNCHANGED <<searchVars, matchVars, indexVars, stopVars, otherVars>>

RemoveSetting ==
    /\ \E settingName \in SettingNames :
       \E call \in { maybeRemoveSettingExtension(registeredSettings, settingName) } :
          /\ registeredSettings' = call.registry
          /\ settingOutcome' = [op |-> "remove", settingName |-> settingName,
                                ok |-> call.result]
    /\ UNCHANGED <<searchVars, matchVars, indexVars, stopVars, otherVars>>

(***************************************************************************)
(* issueKindViewSortPriority (IssueKindView).  A view is taken for the     *)
(* kind its getKind() returns.                                             *)
(***************************************************************************)
IssueKinds == {"PageError", "BreakingChange", "Improvement"}

\* A BreakingChange view put before every other view.
issueKindViewSortPriorityBreakingFirst(a, b) ==
    IF a = b THEN 0
    ELSE IF a = "PageError" THEN -1
    ELSE IF a = "BreakingChange" THEN -1
    ELSE 1

issueKindViewSortPriority(a, b) ==
    IF a = b THEN 0
    ELSE IF a = "PageError" THEN -1
    ELSE IF a = "BreakingChange" /\ b = "Improvement" THEN -1
    ELSE 1

\* Two of the three views are compared.
CompareViews ==
    /\ \E i, j \in DOMAIN kindViews :
          priorities' = priorities \cup
              { [a |-> kindViews[i], b |-> kindViews[j],
                 value |-> issueKindViewSortPriority(kindViews[i], kindViews[j])] }
    /\ UNCHANGED <<kindViews, searchVars, matchVars, indexVars, stopVars,
                   registryVars, viewVars, overlapVars>>

(***************************************************************************)
(* The specifications.                                                     *)
(***************************************************************************)
\* The configuration while no search is asked for.
NoSearch == [queries |-> << >>, ignoreCase |-> FALSE, fileQueries |-> << >>]

IdleSearch ==
    /\ progress = IdleProgress
    /\ pc = "idle"
    /\ requests = << >>
    /\ tasks = << >>
    /\ events = << >>

IdleMatch ==
    /\ mString = << >>
    /\ mQueries = << >>
    /\ mIgnoreCase = FALSE
    /\ mRun = Null

IdleIndex ==
    /\ idxCalls = [token \in ProgressTokens |-> 0]
    /\ idxDone = [token \in ProgressTokens |-> 0]
    /\ microtasks = << >>

IdleStop == stopSearchAt = {}

IdleRegistry ==
    /\ registeredSettings = << >>
    /\ settingOutcome = NoSettingCall

IdleView == viewed = Null

IdleRunB ==
    [progress |-> IdleProgress, pc |-> "idle", requests |-> << >>,
     tasks |-> << >>, events |-> << >>]

IdleOverlap == runB = IdleRunB

IdleKinds ==
    /\ kindViews = << >>
    /\ priorities = {}

IdleOther ==
    /\ IdleView
    /\ IdleOverlap
    /\ IdleKinds

Init ==
    /\ networkLog \in NetworkLogs
    /\ searchConfig \in SearchConfigs
    /\ IdleSearch
    /\ IdleMatch
    /\ IdleIndex
    /\ IdleStop
    /\ IdleRegistry
    /\ IdleOther

Next ==
    \/ PerformSearch
    \/ \E k \in 1..(MaxRequests + 1) : BodySearchResolved(k)
    \/ Join
    \/ Cancel

Spec == Init /\ [][Next]_vars

\* The event loop runs every continuation that is ready; when a body search
\* resolves and whether the token is canceled is up to the environment.
LiveSpec ==
    /\ Spec
    /\ WF_vars(Join)

\* A run during which stopSearch() is called at any time.
StopNext ==
    \/ Next
    \/ StopSearch

StopSpec == Init /\ [][StopNext]_vars

\* A run and the accessor calls on the results it handed out.
ViewNext ==
    \/ Next
    \/ CallMatchLabel
    \/ CallMatchLineContent

ViewSpec == Init /\ [][ViewNext]_vars

\* The logs of the overlapping runs: with and without text content, with
\* equal and with different labels.
OverlapLogs == { <<1>>, <<1, 2>>, <<2, 4>>, <<4, 1>>, <<5, 3>>, <<1, 2, 3>> }

OverlapInit ==
    /\ networkLog \in OverlapLogs
    /\ searchConfig \in SearchConfigs
    /\ IdleSearch
    /\ IdleMatch
    /\ IdleIndex
    /\ IdleStop
    /\ IdleRegistry
    /\ IdleOther

NextB ==
    \/ PerformSearchB
    \/ \E k \in 1..(MaxRequests + 1) : BodySearchResolvedB(k)
    \/ JoinB
    \/ CancelB

OverlapNext ==
    \/ Next
    \/ NextB

OverlapSpec == OverlapInit /\ [][OverlapNext]_vars

KindInit ==
    /\ kindViews \in [1..3 -> IssueKinds]
    /\ priorities = {}
    /\ networkLog = << >>
    /\ searchConfig = NoSearch
    /\ IdleSearch
    /\ IdleMatch
    /\ IdleIndex
    /\ IdleStop
    /\ IdleRegistry
    /\ IdleView
    /\ IdleOverlap

KindNext == CompareViews

KindSpec == KindInit /\ [][KindNext]_vars

\* A run whose body searches are fulfilled or rejected.
FailNext ==
    \/ Next
    \/ \E k \in 1..(MaxRequests + 1) : BodySearchRejected(k)
    \/ JoinRejected

FailSpec == Init /\ [][FailNext]_vars

MatchInit ==
    /\ mString \in MatchStrings
    /\ mQueries \in MatchQueries
    /\ mIgnoreCase \in BOOLEAN
    /\ mRun = Null
    /\ networkLog = << >>
    /\ searchConfig = NoSearch
    /\ IdleSearch
    /\ IdleIndex
    /\ IdleStop
    /\ IdleRegistry
    /\ IdleOther

MatchNext == ApplyMatcher

MatchSpec == MatchInit /\ [][MatchNext]_vars

IndexInit ==
    /\ networkLog = << >>
    /\ searchConfig = NoSearch
    /\ IdleSearch
    /\ IdleMatch
    /\ IdleIndex
    /\ IdleStop
    /\ IdleRegistry
    /\ IdleOther

IndexNext ==
    \/ CallPerformIndexing
    \/ RunMicrotask

IndexSpec == IndexInit /\ [][IndexNext]_vars

LiveIndexSpec ==
    /\ IndexSpec
    /\ WF_vars(RunMicrotask)

\* The registry after registerSettingsForTest([mockSetting], true).
RegistryInit ==
    /\ registeredSettings = << "mockSetting" >>
    /\ settingOutcome = NoSettingCall
    /\ networkLog = << >>
    /\ searchConfig = NoSearch
    /\ IdleSearch
    /\ IdleMatch
    /\ IdleIndex
    /\ IdleStop
    /\ IdleOther

RegistryNext ==
    \/ RegisterSetting
    \/ RemoveSetting

RegistrySpec == RegistryInit /\ [][RegistryNext]_vars

(***************************************************************************)
(* Reading the record of calls.                                            *)
(***************************************************************************)
OnResultCalls   == ArgsOf("onResult")
OnFinishedCalls == ArgsOf("onFinished")

\* The isCanceled() of line 42 returned true.
JoinSawCanceled ==
    \E i \in DOMAIN events :
        events[i].op = "isCanceled" /\ events[i].by = 0 /\ events[i].arg

AllTasksReturned == \A k \in DOMAIN tasks : tasks[k].state = "returned"

\* The candidates of the log that pass the path predicate.
FilteredCount ==
    Cardinality({i \in DOMAIN networkLog :
                    FilePathMatchesFileQuery(searchConfig, Catalogue[networkLog[i]].url)})

(***************************************************************************)
(* C1.  Cancellation suppresses all output: in a run whose Progress token  *)
(* is canceled before the join completes (so that the isCanceled() after   *)
(* the join returns true), searchResultCallback is never called and        *)
(* searchFinishedCallback is called exactly once, with false, also when    *)
(* tasks had produced matches before the cancellation.                     *)
(***************************************************************************)
C1_CancellationSuppressesOutput ==
    /\ (pc = "joining" /\ progress.canceled) =>
           (OnResultCalls = << >> /\ OnFinishedCalls = << >>)
    /\ (pc = "finished" /\ JoinSawCanceled) =>
           (OnResultCalls = << >> /\ OnFinishedCalls = << FALSE >>)

C1_Witness ==
    /\ pc = "finished"
    /\ JoinSawCanceled
    /\ \E k \in DOMAIN tasks :
          /\ tasks[k].result # Null
          /\ matchesCount(tasks[k].result) > 0

(***************************************************************************)
(* C2.  Every performSearch run calls searchFinishedCallback exactly once, *)
(* as the last call of the run: never twice, with false when the token was *)
(* canceled when the join completed and true otherwise, and, once every    *)
(* launched body search has resolved, eventually.                          *)
(***************************************************************************)
C2_FinishedExactlyOnce ==
    /\ [](Len(OnFinishedCalls) <= 1)
    /\ [](pc = "finished" <=> Len(OnFinishedCalls) = 1)
    /\ [](pc = "finished" => events[Len(events)].op = "onFinished")
    /\ [][(pc = "joining" /\ pc' = "finished") =>
              OnFinishedCalls' = << ~progress.canceled >>]_vars
    /\ [][pc = "finished" => events' = events]_vars
    /\ ((pc = "joining" /\ AllTasksReturned) ~> (Len(OnFinishedCalls) = 1))

C2_Witness ==
    /\ pc = "finished"
    /\ OnFinishedCalls = << TRUE >>
    /\ Len(EventsOf("resolved")) >= 2

(***************************************************************************)
(* C3.  In a run that is not canceled the results reach                    *)
(* searchResultCallback in ascending order of label, in whatever order the *)
(* body searches resolved.                                                 *)
(***************************************************************************)
C3_ResultsInLabelOrder ==
    (pc = "finished" /\ ~JoinSawCanceled) =>
        \A i, j \in DOMAIN OnResultCalls :
            i < j => localeCompare(label(OnResultCalls[i]), label(OnResultCalls[j])) <= 0

\* Labels c.js, a.js, b.js in the log, resolved last to first, all three emitted.
C3_Witness ==
    /\ pc = "finished"
    /\ requests = <<1, 2, 3>>
    /\ MapSeq(EventsOf("resolved"), LAMBDA e : e.by) = <<3, 2, 1>>
    /\ MapSeq(OnResultCalls, LAMBDA r : r.request) = <<2, 3, 1>>

(***************************************************************************)
(* C4.  Every result passed to searchResultCallback has matchesCount() >   *)
(* 0: a candidate with no match location is never passed, although its     *)
(* task completed.                                                         *)
(***************************************************************************)
C4_NoEmptyResultEmitted ==
    \A i \in DOMAIN OnResultCalls : matchesCount(OnResultCalls[i]) > 0

C4_Witness ==
    /\ pc = "finished"
    /\ OnFinishedCalls = << TRUE >>
    /\ OnResultCalls # << >>
    /\ \E k \in DOMAIN tasks :
          /\ tasks[k].result # Null
          /\ matchesCount(tasks[k].result) = 0
          /\ \E i \in DOMAIN events : events[i].op = "worked" /\ events[i].by = k

(***************************************************************************)
(* C5.  Progress accounting.  As claimed: at the end of every run with N   *)
(* candidates passing the path predicate, setTotalWork has been called     *)
(* once, with N, and worked() N times.                                     *)
(***************************************************************************)
C5_Original ==
    pc = "finished" =>
        /\ progress.setTotalWorkCalls = 1
        /\ progress.totalWork = FilteredCount
        /\ progress.worked = FilteredCount

(***************************************************************************)
(* C5, amended.  setTotalWork is called exactly once, with N; worked() is  *)
(* called N times by the end of a run that ends with                       *)
(* searchFinishedCallback(true), and at most N times by the end of a       *)
(* canceled run, in every interleaving of the tasks.                       *)
(***************************************************************************)
C5_ProgressAccounting ==
    /\ pc # "idle" =>
          /\ progress.setTotalWorkCalls = 1
          /\ progress.totalWork = FilteredCount
          /\ ArgsOf("setTotalWork") = << FilteredCount >>
          /\ progress.worked <= FilteredCount
    /\ (pc = "finished" /\ OnFinishedCalls = << TRUE >>) =>
          progress.worked = FilteredCount

C5_Witness ==
    /\ pc = "finished"
    /\ OnFinishedCalls = << TRUE >>
    /\ FilteredCount = 2
    /\ Len(networkLog) = 3
    /\ progress.worked = 2

(***************************************************************************)
(* C6.  The match locations of a result are ordered by kind: the URL       *)
(* match, then the matching request headers in the order of the request's  *)
(* headers, then the matching response headers in their order, then the    *)
(* body matches in the order the body search returned them.                *)
(***************************************************************************)
KindRank(location) ==
    IF location.isUrlMatch THEN 1
    ELSE IF location.requestHeader # Null THEN 2
    ELSE IF location.responseHeader # Null THEN 3
    ELSE 4

PositionIn(seq, x) == CHOOSE i \in DOMAIN seq : seq[i] = x

\* Where the location's header or body match stands in the request's own list.
SourcePosition(location) ==
    LET request == Catalogue[location.request]
    IN  CASE KindRank(location) = 1 -> 0
          [] KindRank(location) = 2 -> PositionIn(request.requestHeaders, location.requestHeader)
          [] KindRank(location) = 3 -> PositionIn(request.responseHeaders, location.responseHeader)
          [] KindRank(location) = 4 -> PositionIn(request.searchInContent, location.searchMatch)

C6_LocationsOrderedByKind ==
    \A k \in DOMAIN tasks :
        tasks[k].result # Null =>
            LET locations == tasks[k].result.locations
            IN  \A i, j \in DOMAIN locations :
                    i < j =>
                        \/ KindRank(locations[i]) < KindRank(locations[j])
                        \/ /\ KindRank(locations[i]) = KindRank(locations[j])
                           /\ SourcePosition(locations[i]) < SourcePosition(locations[j])

\* A result with a URL match, a request header, a response header and two body lines.
C6_Witness ==
    \E k \in DOMAIN tasks :
        /\ tasks[k].result # Null
        /\ MapSeq(tasks[k].result.locations, KindRank) = <<1, 2, 3, 4, 4>>

(***************************************************************************)
(* C7.  With no token in the query the matcher returns true for every      *)
(* string, the empty string included.                                      *)
(***************************************************************************)
C7_EmptyQueryMatchesEverything ==
    (mRun # Null /\ mQueries = << >>) => mRun.result

C7_Witness ==
    /\ mRun # Null
    /\ mQueries = << >>
    /\ mString = << >>
    /\ mRun.result

(***************************************************************************)
(* C8.  Token order is significant.  Each token is searched, in query      *)
(* order, in the part of the string behind the end of the previous token's *)
(* match; the matcher returns false at the first token with no occurrence  *)
(* there; a string that matches holds all tokens in sequence without       *)
(* overlap; tokens b, a do not match the string ab.                        *)
(***************************************************************************)
\* Offsets at which the tokens occur one behind the other.
OccurInSequence(string, queries, ignoreCase) ==
    \E at \in [DOMAIN queries -> 0..Len(string)] :
        /\ \A k \in DOMAIN queries : OccursAt(string, queries[k], at[k], ignoreCase)
        /\ \A k \in DOMAIN queries :
              k > 1 => at[k] >= at[k - 1] + Len(queries[k - 1])

C8_TokenOrderSignificant ==
    mRun # Null =>
        /\ \A k \in DOMAIN mRun.starts :
              /\ k = 1 => mRun.starts[k] = 0
              /\ k > 1 => mRun.starts[k] =
                              mRun.starts[k - 1] + mRun.indices[k - 1] + Len(mQueries[k - 1])
              /\ (mRun.indices[k] = NoMatch) <=>
                     ~ \E i \in mRun.starts[k]..Len(mString) :
                           OccursAt(mString, mQueries[k], i, mIgnoreCase)
              /\ mRun.indices[k] = NoMatch => (~mRun.result /\ k = Len(mRun.starts))
        /\ mRun.result => OccurInSequence(mString, mQueries, mIgnoreCase)
        /\ (mString = <<"a", "b">> /\ mQueries = << <<"b">>, <<"a">> >>) => ~mRun.result

C8_Witness ==
    /\ mRun # Null
    /\ mString = <<"a", "b">>
    /\ mQueries = << <<"b">>, <<"a">> >>
    /\ mRun.indices = <<1, NoMatch>>
    /\ ~mRun.result

(***************************************************************************)
(* C9.  Zero-offset restriction.  When the first occurrence of a token in  *)
(* the remaining substring is at offset 0, the matcher returns false: the  *)
(* token x does not match xyz, and a token found right behind the previous *)
(* token's match makes the string non-matching.                            *)
(***************************************************************************)
C9_ZeroOffsetRejected ==
    mRun # Null =>
        /\ (\E k \in DOMAIN mRun.indices : mRun.indices[k] = 0) => ~mRun.result
        /\ (mQueries # << >> /\ OccursAt(mString, mQueries[1], 0, mIgnoreCase)) => ~mRun.result
        /\ (mString = <<"x", "y", "z">> /\ mQueries = << <<"x">> >>) => ~mRun.result

\* b, a, b against tokens a, b: a is found at 1 and b right behind it.
C9_Witness ==
    /\ mRun # Null
    /\ mString = <<"b", "a", "b">>
    /\ mQueries = << <<"a">>, <<"b">> >>
    /\ mRun.indices = <<1, 0>>
    /\ ~mRun.result

(***************************************************************************)
(* C10.  performIndexing(progress) calls progress.done() exactly once and  *)
(* only asynchronously: done() has not been called when performIndexing    *)
(* returns, and it is called later, from the microtask queue.              *)
(***************************************************************************)
Queued(token) == Cardinality({i \in DOMAIN microtasks : microtasks[i] = token})

C10_IndexingDoneAsynchronously ==
    /\ [][idxCalls' # idxCalls => idxDone' = idxDone]_vars
    /\ [](\A token \in ProgressTokens : idxDone[token] + Queued(token) = idxCalls[token])
    /\ \A token \in ProgressTokens : \A n \in 1..MaxIndexCalls :
          (idxCalls[token] = n) ~> (idxDone[token] >= n)

C10_Witness ==
    \E token \in ProgressTokens :
        /\ idxCalls[token] = 1
        /\ idxDone[token] = 1
        /\ microtasks = << >>

(***************************************************************************)
(* C11.  Terminal ordering on success.  In a run that is not canceled      *)
(* every searchResultCallback call comes first, then progress.done() is    *)
(* called exactly once, then searchFinishedCallback(true) is called; no    *)
(* result is emitted after done() or after the finished callback, and none *)
(* of the three is called before the join.                                 *)
(***************************************************************************)
C11_TerminalOrderOnSuccess ==
    /\ pc \in {"idle", "joining"} =>
           (OnResultCalls = << >> /\ EventsOf("done") = << >> /\ progress.doneCalls = 0)
    /\ (pc = "finished" /\ ~JoinSawCanceled) =>
           /\ progress.doneCalls = 1
           /\ Len(EventsOf("done")) = 1
           /\ Len(events) >= 2
           /\ events[Len(events) - 1] = Event("done", Null, 0)
           /\ events[Len(events)] = Event("onFinished", TRUE, 0)
           /\ \A i \in DOMAIN events :
                  /\ events[i].op = "onResult" => i < Len(events) - 1
                  /\ events[i].op = "onFinished" => i = Len(events)

\* Two results handed out, then done(), then the finished callback.
C11_Witness ==
    /\ pc = "finished"
    /\ ~JoinSawCanceled
    /\ Len(OnResultCalls) >= 2
    /\ Len(events) >= 4
    /\ events[Len(events) - 2].op = "onResult"
    /\ events[Len(events) - 1].op = "done"

(***************************************************************************)
(* C12.  stopSearch() is a no-op.  Called before, during or after a run,   *)
(* it changes no state of the scope, of the run or of the Progress token:  *)
(* every step of a run with stopSearch() calls is a step of the run        *)
(* without them or leaves the run untouched, so the results handed out and *)
(* the argument of the finished callback are those of the run without      *)
(* stopSearch(); a run is canceled through its Progress token only.        *)
(***************************************************************************)
C12_StopSearchIsNoOp ==
    /\ [][stopSearchAt' # stopSearchAt =>
              UNCHANGED <<searchVars, matchVars, indexVars, registryVars>>]_vars
    /\ [][Next \/ UNCHANGED searchVars]_vars
    /\ [](OnFinishedCalls = << FALSE >> => progress.canceled)

\* stopSearch() was called before, during and after a run that ended with
\* results and searchFinishedCallback(true).
C12_Witness ==
    /\ stopSearchAt = {"idle", "joining", "finished"}
    /\ pc = "finished"
    /\ OnFinishedCalls = << TRUE >>
    /\ OnResultCalls # << >>
    /\ ~progress.canceled

(***************************************************************************)
(* C13.  A failing body search does not abort the run.  As claimed: when   *)
(* the body search of a candidate fails, the failure counts as zero body   *)
(* matches: the candidate's task still returns, with its URL and header    *)
(* matches unless the token is canceled, and the run still ends with one   *)
(* searchFinishedCallback call, its promise never rejected.                *)
(***************************************************************************)
BodySearchFailed(k) ==
    \E i \in DOMAIN events : events[i].op = "rejected" /\ events[i].by = k

C13_Original ==
    /\ \A k \in DOMAIN tasks :
          BodySearchFailed(k) =>
              /\ tasks[k].state = "returned"
              /\ \/ tasks[k].result = Null
                 \/ tasks[k].result =
                        NetworkSearchResult(requests[k],
                            BuildLocations(searchConfig, requests[k], << >>))
    /\ pc # "rejected"
    /\ pc \notin {"idle", "joining"} => Len(OnFinishedCalls) = 1

(***************************************************************************)
(* C14.  Registered setting names are unique across every sequence of      *)
(* register and remove calls: registerSettingExtension throws exactly when *)
(* the name is registered already and otherwise registers it, and right    *)
(* after maybeRemoveSettingExtension(name) returned true the name is gone  *)
(* and can be registered again without an error.                           *)
(***************************************************************************)
C14_SettingNamesUnique ==
    /\ [](\A i, j \in DOMAIN registeredSettings :
              i # j => registeredSettings[i] # registeredSettings[j])
    /\ [][settingOutcome'.op = "register" =>
              /\ settingOutcome'.ok <=>
                     settingOutcome'.settingName \notin Range(registeredSettings)
              /\ settingOutcome'.settingName \in Range(registeredSettings')]_vars
    /\ [][settingOutcome'.op = "remove" =>
              /\ settingOutcome'.ok <=>
                     settingOutcome'.settingName \in Range(registeredSettings)
              /\ settingOutcome'.settingName \notin Range(registeredSettings')]_vars
    /\ [][(/\ settingOutcome.op = "remove"
            /\ settingOutcome.ok
            /\ settingOutcome'.op = "register"
            /\ settingOutcome'.settingName = settingOutcome.settingName) =>
              settingOutcome'.ok]_vars

\* mockSetting, registered at the start, was removed and registered again.
C14_Witness ==
    /\ registeredSettings = << "secondSetting", "mockSetting" >>
    /\ settingOutcome = [op |-> "register", settingName |-> "mockSetting", ok |-> TRUE]

(***************************************************************************)
(* C15.  The path predicate is applied before any search work.             *)
(* setTotalWork is called with the filtered count before any per-candidate *)
(* task starts, and a candidate the predicate rejects is never searched    *)
(* (no searchInContent, no worked(), no task at all) and never emitted.    *)
(***************************************************************************)
PassesPathPredicate(id) == FilePathMatchesFileQuery(searchConfig, Catalogue[id].url)

C15_FilterBeforeSearch ==
    /\ \A k \in DOMAIN requests : PassesPathPredicate(requests[k])
    /\ pc # "idle" =>
           /\ events[1].op = "setTotalWork"
           /\ events[1].arg = FilteredCount
           /\ Len(tasks) = FilteredCount
    /\ \A i \in DOMAIN events :
           /\ events[i].op = "searchInContent" => PassesPathPredicate(events[i].arg)
           /\ events[i].by # 0 =>
                  (events[i].by \in DOMAIN requests
                      /\ PassesPathPredicate(requests[events[i].by]))
    /\ \A k \in DOMAIN tasks :
           tasks[k].result # Null => PassesPathPredicate(tasks[k].result.request)
    /\ \A i \in DOMAIN OnResultCalls : PassesPathPredicate(OnResultCalls[i].request)

\* A log of three requests, one of them rejected; the run emitted a result.
C15_Witness ==
    /\ pc = "finished"
    /\ Len(networkLog) = 3
    /\ \E i \in DOMAIN networkLog : ~PassesPathPredicate(networkLog[i])
    /\ Len(requests) = 2
    /\ Len(EventsOf("searchInContent")) = 2
    /\ OnResultCalls # << >>

(***************************************************************************)
(* C16.  Unbounded concurrent fan-out.  performSearch starts the task of   *)
(* every filtered candidate before it waits for any: the body search of    *)
(* every text-typed candidate is issued before the resolution of any body  *)
(* search is processed, and no task waits for another task: every pending  *)
(* body search may resolve next, whatever the others have done.            *)
(***************************************************************************)
IssuedBy(k) ==
    {i \in DOMAIN events : events[i].op = "searchInContent" /\ events[i].by = k}

C16_FanOutBeforeAnyResolution ==
    /\ pc # "idle" =>
           /\ Len(tasks) = Len(requests)
           /\ \A k \in DOMAIN requests :
                  Catalogue[requests[k]].isTextType => IssuedBy(k) # {}
    /\ \A i, j \in DOMAIN events :
           (events[i].op = "searchInContent" /\ events[j].op = "resolved") => i < j
    /\ pc = "joining" =>
           \A k \in DOMAIN tasks :
               tasks[k].state = "awaiting" => ENABLED BodySearchResolved(k)

\* Three body searches in flight at once; the last one issued resolved first.
C16_Witness ==
    /\ pc = "joining"
    /\ Len(EventsOf("searchInContent")) = 3
    /\ MapSeq(EventsOf("resolved"), LAMBDA e : e.by) = << 3 >>
    /\ tasks[1].state = "awaiting"
    /\ tasks[2].state = "awaiting"

(***************************************************************************)
(* C17.  Cancellation is cooperative and the join waits for every task.    *)
(* Canceling the token aborts no body search: a search in flight when the  *)
(* token is canceled still resolves and its task still runs to its return. *)
(* searchFinishedCallback is not called, with false or with true, until    *)
(* every launched task has completed.                                      *)
(***************************************************************************)
ResolvedFor(k) ==
    \E i \in DOMAIN events : events[i].op = "resolved" /\ events[i].by = k

\* Task k found the token canceled at its check of line 63.
SawCanceled(k) ==
    \E i \in DOMAIN events :
        events[i].op = "isCanceled" /\ events[i].by = k /\ events[i].arg

C17_JoinWaitsForEveryTask ==
    /\ OnFinishedCalls # << >> =>
           /\ AllTasksReturned
           /\ \A k \in DOMAIN requests :
                  Catalogue[requests[k]].isTextType => ResolvedFor(k)
    /\ pc = "finished" => AllTasksReturned
    /\ (pc = "joining" /\ progress.canceled) =>
           /\ OnFinishedCalls = << >>
           /\ \A k \in DOMAIN tasks :
                  tasks[k].state = "awaiting" => ENABLED BodySearchResolved(k)
           /\ (~AllTasksReturned) => ~ENABLED Join

\* The token was canceled with two body searches in flight (the task of a
\* request without text content, run in the launch loop, found it not
\* canceled); both resolved afterwards, then the run ended with
\* searchFinishedCallback(false).
C17_Witness ==
    /\ pc = "finished"
    /\ OnFinishedCalls = << FALSE >>
    /\ \E n \in DOMAIN tasks :
           ~Catalogue[requests[n]].isTextType /\ ~SawCanceled(n)
    /\ Cardinality({k \in DOMAIN tasks : ResolvedFor(k) /\ SawCanceled(k)}) = 2

(***************************************************************************)
(* C18.  A task that finds the token canceled at its check after the body  *)
(* search resolved returns the absent result at once: it builds no match   *)
(* location and does not call worked().                                    *)
(***************************************************************************)
C18_CanceledTaskReturnsAbsent ==
    /\ \A k \in DOMAIN tasks :
           SawCanceled(k) =>
               /\ tasks[k].state = "returned"
               /\ tasks[k].result = Null
               /\ ~ \E i \in DOMAIN events : events[i].op = "worked" /\ events[i].by = k
    /\ \A i \in DOMAIN events :
           (events[i].op = "isCanceled" /\ events[i].by # 0 /\ events[i].arg) =>
               \A j \in DOMAIN events : j > i => events[j].by # events[i].by
    /\ progress.worked = Len(EventsOf("worked"))
    /\ progress.worked =
           Cardinality({k \in DOMAIN tasks : tasks[k].state = "returned" /\ ~SawCanceled(k)})

\* One body search resolved before the cancellation and one after it.
C18_Witness ==
    \E k, other \in DOMAIN tasks :
        /\ ResolvedFor(k)
        /\ SawCanceled(k)
        /\ tasks[k].result = Null
        /\ Catalogue[requests[k]].searchInContent # << >>
        /\ ResolvedFor(other)
        /\ tasks[other].result # Null
        /\ progress.worked = 1

(***************************************************************************)
(* C19.  The body is searched only for text content.  searchInContent is   *)
(* called for a candidate, once, if and only if the content type of its    *)
(* resource is a text type; for any other candidate it is never called and *)
(* the body matches are empty: its result holds no body-match location.    *)
(***************************************************************************)
C19_BodySearchedOnlyForText ==
    /\ pc # "idle" =>
           \A k \in DOMAIN requests :
               /\ Catalogue[requests[k]].isTextType => Cardinality(IssuedBy(k)) = 1
               /\ ~Catalogue[requests[k]].isTextType => IssuedBy(k) = {}
    /\ \A i \in DOMAIN events :
           events[i].op \in {"searchInContent", "resolved"} =>
               Catalogue[requests[events[i].by]].isTextType
    /\ \A k \in DOMAIN tasks :
           (~Catalogue[requests[k]].isTextType /\ tasks[k].result # Null) =>
               \A i \in DOMAIN tasks[k].result.locations :
                   tasks[k].result.locations[i].searchMatch = Null

\* A request without text content whose body would match was emitted for
\* its URL alone, next to a text request emitted with a body match.
C19_Witness ==
    /\ pc = "finished"
    /\ \E i, j \in DOMAIN OnResultCalls :
           /\ ~Catalogue[OnResultCalls[i].request].isTextType
           /\ Catalogue[OnResultCalls[i].request].searchInContent # << >>
           /\ MapSeq(OnResultCalls[i].locations, KindRank) = << 1 >>
           /\ Catalogue[OnResultCalls[j].request].isTextType
           /\ \E l \in DOMAIN OnResultCalls[j].locations :
                  OnResultCalls[j].locations[l].searchMatch # Null

(***************************************************************************)
(* C20.  A task suspends only at its body-search call, and performSearch   *)
(* only at the join.  The task of a candidate without text content never   *)
(* suspends: its cancellation check, its match building and its worked()   *)
(* all happen in the launch loop, before the task of any later candidate   *)
(* starts and before any body search resolves.  The part of a text task    *)
(* behind its await runs without interruption too.                         *)
(***************************************************************************)
EventsBy(k) == {i \in DOMAIN events : events[i].by = k}

C20_NonTextTaskNeverSuspends ==
    /\ pc # "idle" =>
           \A k \in DOMAIN tasks :
               ~Catalogue[requests[k]].isTextType =>
                   /\ tasks[k].state = "returned"
                   /\ EventsBy(k) # {}
                   /\ \A i \in EventsBy(k) :
                          /\ events[i].op \in {"isCanceled", "stringMatchesQuery",
                                                "headerMatchesQuery", "worked"}
                          /\ \A j \in DOMAIN events :
                                 (events[j].op = "resolved" \/ events[j].by > k) => i < j
                          /\ \A j \in DOMAIN events :
                                 (events[j].by \in 1..(k - 1)
                                     /\ events[j].op = "searchInContent") => j < i
                   /\ (tasks[k].result # Null) <=>
                          (\E i \in EventsBy(k) : events[i].op = "worked")
    /\ \A i \in DOMAIN events :
           events[i].op = "resolved" =>
               /\ i < Len(events)
               /\ events[i + 1].op = "isCanceled"
               /\ events[i + 1].by = events[i].by
               /\ ~events[i + 1].arg =>
                      \E w \in (i + 2)..Len(events) :
                          /\ events[w].op = "worked"
                          /\ \A m \in i..w : events[m].by = events[i].by

\* A request without text content between two text requests: its task has
\* returned with a result while both body searches are still in flight.
C20_Witness ==
    /\ pc = "joining"
    /\ Len(requests) = 3
    /\ ~Catalogue[requests[2]].isTextType
    /\ tasks[1].state = "awaiting"
    /\ tasks[2].state = "returned"
    /\ tasks[2].result # Null
    /\ tasks[3].state = "awaiting"
    /\ progress.worked = 1
    /\ EventsOf("resolved") = << >>

(***************************************************************************)
(* C21.  The place of the URL and header checks.  As claimed: in a         *)
(* per-candidate task the URL and header checks are performed before the   *)
(* task suspends for the body search, so that a suspended task has made    *)
(* them already.                                                           *)
(***************************************************************************)
ChecksBy(k) ==
    {i \in DOMAIN events :
        /\ events[i].by = k
        /\ events[i].op \in {"stringMatchesQuery", "headerMatchesQuery"}}

C21_Original ==
    \A k \in DOMAIN tasks :
        Catalogue[requests[k]].isTextType =>
            /\ ChecksBy(k) # {}
            /\ \A c \in ChecksBy(k) : \A i \in IssuedBy(k) : c < i

(***************************************************************************)
(* C21, amended.  The await of the body search is the one suspension point *)
(* of a task and it comes before the URL and header checks: the task of a  *)
(* text candidate calls searchInContent first and suspends without having  *)
(* made any check; the checks are made after the body search has resolved  *)
(* and the cancellation check has returned false, before worked(); a task  *)
(* that finds the token canceled makes none.                               *)
(***************************************************************************)
C21_ChecksAfterTheAwait ==
    \A k \in DOMAIN tasks :
        /\ Cardinality(IssuedBy(k)) <= 1
        /\ Cardinality({i \in EventsBy(k) : events[i].op = "resolved"})
               = IF Catalogue[requests[k]].isTextType /\ tasks[k].state = "returned"
                 THEN 1 ELSE 0
        /\ tasks[k].state = "awaiting" => ChecksBy(k) = {}
        /\ SawCanceled(k) => ChecksBy(k) = {}
        /\ (tasks[k].state = "returned" /\ ~SawCanceled(k)) =>
               Cardinality(ChecksBy(k)) =
                   1 + Len(Catalogue[requests[k]].requestHeaders)
                     + Len(Catalogue[requests[k]].responseHeaders)
        /\ \A c \in ChecksBy(k) : \A i \in EventsBy(k) :
               /\ events[i].op \in {"searchInContent", "resolved", "isCanceled"} => i < c
               /\ events[i].op = "worked" => c < i

\* One text task has resumed and made its three checks behind its await while
\* another is still suspended, having made none.
C21_Witness ==
    /\ pc = "joining"
    /\ \E k, other \in DOMAIN tasks :
           /\ Catalogue[requests[k]].isTextType
           /\ ResolvedFor(k)
           /\ Cardinality(ChecksBy(k)) = 3
           /\ tasks[k].result # Null
           /\ tasks[other].state = "awaiting"
           /\ IssuedBy(other) # {}
           /\ ChecksBy(other) = {}

(***************************************************************************)
(* C22.  Body matches are taken as the body search returned them, without  *)
(* the pattern applied again: every SearchMatch that searchInContent       *)
(* resolved to is exactly one body-match location of the candidate's       *)
(* result, in the same order and behind the other locations, whether or    *)
(* not the URL or a header matches and whatever the matcher says about the *)
(* line.                                                                   *)
(***************************************************************************)
BodyMatchesOf(result) ==
    MapSeq(SelectSeq(result.locations, LAMBDA location : location.searchMatch # Null),
           LAMBDA location : location.searchMatch)

\* What the body search of task k resolved to.
ResolvedTo(k) ==
    LET i == CHOOSE i \in DOMAIN events : events[i].op = "resolved" /\ events[i].by = k
    IN  events[i].arg

C22_BodyMatchesTakenAsReturned ==
    \A k \in DOMAIN tasks :
        tasks[k].result # Null =>
            /\ BodyMatchesOf(tasks[k].result) =
                   (IF ResolvedFor(k) THEN ResolvedTo(k) ELSE << >>)
            /\ ResolvedFor(k) =>
                   ResolvedTo(k) = Catalogue[requests[k]].searchInContent
            /\ \A i, j \in DOMAIN tasks[k].result.locations :
                   (tasks[k].result.locations[i].searchMatch # Null
                       /\ tasks[k].result.locations[j].searchMatch = Null) => j < i

\* The URL of request 2 does not match the query and the matcher rejects the
\* line of its body match; the result holds the body match all the same.
C22_Witness ==
    \E k \in DOMAIN tasks :
        /\ requests[k] = 2
        /\ tasks[k].result # Null
        /\ searchConfig.queries = << <<"a">> >>
        /\ ~stringMatchesQuery(Catalogue[2].url, searchConfig.queries,
                               searchConfig.ignoreCase)
        /\ BodyMatchesOf(tasks[k].result) = << SearchMatch(1, <<"b">>) >>
        /\ ~stringMatchesQuery(<<"b">>, searchConfig.queries, searchConfig.ignoreCase)

(***************************************************************************)
(* C23.  Every match location a per-candidate search builds is of exactly  *)
(* one of four kinds (URL match, request-header match, response-header     *)
(* match, body match): exactly one of isUrlMatch, requestHeader,           *)
(* responseHeader and searchMatch is set, and the location refers to the   *)
(* candidate it was built for.                                             *)
(***************************************************************************)
KindsSet(location) ==
    (IF location.isUrlMatch THEN {"url"} ELSE {})
    \cup (IF location.requestHeader # Null THEN {"requestHeader"} ELSE {})
    \cup (IF location.responseHeader # Null THEN {"responseHeader"} ELSE {})
    \cup (IF location.searchMatch # Null THEN {"body"} ELSE {})

C23_ExactlyOneKind ==
    /\ \A k \in DOMAIN tasks :
           tasks[k].result # Null =>
               /\ tasks[k].result.request = requests[k]
               /\ \A i \in DOMAIN tasks[k].result.locations :
                      /\ Cardinality(KindsSet(tasks[k].result.locations[i])) = 1
                      /\ tasks[k].result.locations[i].request = requests[k]
    /\ \A r \in DOMAIN OnResultCalls :
           \A i \in DOMAIN OnResultCalls[r].locations :
               /\ Cardinality(KindsSet(OnResultCalls[r].locations[i])) = 1
               /\ OnResultCalls[r].locations[i].request = OnResultCalls[r].request

\* A result handed out with locations of all four kinds.
C23_Witness ==
    \E r \in DOMAIN OnResultCalls :
        {KindsSet(OnResultCalls[r].locations[i]) : i \in DOMAIN OnResultCalls[r].locations}
            = {{"url"}, {"requestHeader"}, {"responseHeader"}, {"body"}}

(***************************************************************************)
(* C24.  matchLabel(index) returns, for every valid index, the fixed label *)
(* "URL" for a URL-match location, the header's name followed by a colon   *)
(* for a request-header or response-header location, and for a body-match  *)
(* location the 1-based line number: the zero-based lineNumber of the      *)
(* match plus 1.                                                           *)
(***************************************************************************)
ViewedLocation == viewed.result.locations[viewed.index + 1]

C24_MatchLabel ==
    (viewed # Null /\ viewed.op = "matchLabel") =>
        /\ viewed.index \in 0..(Len(viewed.result.locations) - 1)
        /\ KindRank(ViewedLocation) = 1 =>
               viewed.value = [string |-> <<"U", "R", "L">>]
        /\ KindRank(ViewedLocation) = 2 =>
               viewed.value =
                   [string |-> Append(ViewedLocation.requestHeader.name, ":")]
        /\ KindRank(ViewedLocation) = 3 =>
               viewed.value =
                   [string |-> Append(ViewedLocation.responseHeader.name, ":")]
        /\ KindRank(ViewedLocation) = 4 =>
               viewed.value = [number |-> ViewedLocation.searchMatch.lineNumber + 1]

\* The label of the body match on the first line (lineNumber 0) of request 1,
\* the fourth location of its result, is the number 1.
C24_Witness ==
    /\ viewed # Null
    /\ viewed.op = "matchLabel"
    /\ viewed.result.request = 1
    /\ viewed.index = 3
    /\ ViewedLocation.searchMatch = SearchMatch(0, <<"b", "a">>)
    /\ viewed.value = [number |-> 1]

(***************************************************************************)
(* C25.  matchLineContent(index) returns, for every valid index, the full  *)
(* URL of the candidate for a URL-match location, the value of the header  *)
(* (not its name) for a request-header or response-header location, and    *)
(* the text of the matched line for a body-match location.                 *)
(***************************************************************************)
C25_MatchLineContent ==
    (viewed # Null /\ viewed.op = "matchLineContent") =>
        /\ viewed.index \in 0..(Len(viewed.result.locations) - 1)
        /\ KindRank(ViewedLocation) = 1 =>
               viewed.value = [string |-> Catalogue[viewed.result.request].url]
        /\ KindRank(ViewedLocation) = 2 =>
               viewed.value = [string |-> ViewedLocation.requestHeader.value]
        /\ KindRank(ViewedLocation) = 3 =>
               viewed.value = [string |-> ViewedLocation.responseHeader.value]
        /\ KindRank(ViewedLocation) = 4 =>
               viewed.value = [string |-> ViewedLocation.searchMatch.lineContent]

\* The line content of the response header a: b of request 1 is b.
C25_Witness ==
    /\ viewed # Null
    /\ viewed.op = "matchLineContent"
    /\ viewed.result.request = 1
    /\ ViewedLocation.responseHeader = Header(<<"a">>, <<"b">>)
    /\ viewed.value = [string |-> <<"b">>]

(***************************************************************************)
(* C26.  With a token that stays canceled once it is, a run that calls     *)
(* searchFinishedCallback(true) has no task that returned the absent       *)
(* result: worked() has been called exactly once for every filtered        *)
(* candidate, every filtered candidate with at least one match location    *)
(* has been passed to searchResultCallback exactly once, and no other      *)
(* candidate has.                                                          *)
(***************************************************************************)
WorkedBy(k) == {i \in DOMAIN events : events[i].op = "worked" /\ events[i].by = k}
EmittedFor(id) == {r \in DOMAIN OnResultCalls : OnResultCalls[r].request = id}

C26_SuccessMeansNoAbsentResult ==
    OnFinishedCalls = << TRUE >> =>
        /\ Len(tasks) = FilteredCount
        /\ progress.worked = FilteredCount
        /\ \A k \in DOMAIN tasks :
               /\ tasks[k].state = "returned"
               /\ tasks[k].result # Null
               /\ ~SawCanceled(k)
               /\ Cardinality(WorkedBy(k)) = 1
               /\ Cardinality(EmittedFor(requests[k])) =
                      IF matchesCount(tasks[k].result) > 0 THEN 1 ELSE 0
               /\ \A r \in EmittedFor(requests[k]) : OnResultCalls[r] = tasks[k].result
        /\ \A r \in DOMAIN OnResultCalls :
               \E k \in DOMAIN requests : requests[k] = OnResultCalls[r].request

\* Three candidates worked on, two of them handed out, the third without a
\* match; the token was canceled only after the run had ended.
C26_Witness ==
    /\ OnFinishedCalls = << TRUE >>
    /\ progress.worked = 3
    /\ Len(OnResultCalls) = 2
    /\ progress.canceled

(***************************************************************************)
(* C27.  performSearch calls progress.done() if and only if the run ends   *)
(* with searchFinishedCallback(true): a run that ends canceled, with       *)
(* searchFinishedCallback(false), never calls it.                          *)
(***************************************************************************)
C27_DoneOnlyOnSuccess ==
    /\ progress.doneCalls = Len(EventsOf("done"))
    /\ progress.doneCalls \in {0, 1}
    /\ progress.doneCalls = 1 <=> OnFinishedCalls = << TRUE >>
    /\ OnFinishedCalls = << FALSE >> => progress.doneCalls = 0
    /\ pc = "finished" => (OnFinishedCalls = << FALSE >> \/ progress.doneCalls = 1)

\* A run ended canceled after two of its tasks had called worked().
C27_Witness ==
    /\ pc = "finished"
    /\ OnFinishedCalls = << FALSE >>
    /\ progress.worked = 2
    /\ progress.doneCalls = 0

(***************************************************************************)
(* C28.  What a run that is not canceled hands out is the same for every   *)
(* order in which the body searches resolve, also when labels are equal:   *)
(* the results of the filtered candidates with a match, each once, in      *)
(* ascending order of label and, for equal labels, in the order of their   *)
(* candidates in the request log.                                          *)
(***************************************************************************)
\* The result of a candidate whose task was not canceled.
ResultFor(id) ==
    NetworkSearchResult(id,
        BuildLocations(searchConfig, id,
            IF Catalogue[id].isTextType THEN Catalogue[id].searchInContent ELSE << >>))

C28_EmissionIndependentOfInterleaving ==
    (pc = "finished" /\ ~JoinSawCanceled) =>
        /\ \A i, j \in DOMAIN OnResultCalls :
               i < j =>
                   LET order == localeCompare(label(OnResultCalls[i]),
                                              label(OnResultCalls[j]))
                   IN  \/ order < 0
                       \/ /\ order = 0
                          /\ PositionIn(networkLog, OnResultCalls[i].request)
                                 < PositionIn(networkLog, OnResultCalls[j].request)
        /\ {OnResultCalls[r] : r \in DOMAIN OnResultCalls} =
               {ResultFor(networkLog[i]) : i \in
                   {n \in DOMAIN networkLog :
                       /\ PassesPathPredicate(networkLog[n])
                       /\ matchesCount(ResultFor(networkLog[n])) > 0}}

\* Requests 5 and 3 carry the same label; the body search of 3 resolved
\* first, and 5, which stands first in the log, was handed out first.
C28_Witness ==
    /\ pc = "finished"
    /\ networkLog = <<5, 3, 1>>
    /\ MapSeq(EventsOf("resolved"), LAMBDA e : e.by) = <<2, 3, 1>>
    /\ MapSeq(OnResultCalls, LAMBDA r : r.request) = <<5, 3, 1>>

(***************************************************************************)
(* C29.  Two overlapping performSearch runs on one scope, each with its    *)
(* own Progress token, do not interfere.  The scope keeps no state of a    *)
(* run: every step of one run, the cancellation of its token included,     *)
(* leaves the other run untouched, so each run behaves as it would alone;  *)
(* a run whose own token is not canceled ends with all its results handed  *)
(* out, worked() called once per filtered candidate and                    *)
(* searchFinishedCallback(true), whatever happened to the other run, in    *)
(* every interleaving of their tasks.                                      *)
(***************************************************************************)
ArgsOfB(op) ==
    MapSeq(SelectSeq(runB.events, LAMBDA e : e.op = op), LAMBDA e : e.arg)

\* What a run hands out when its token is not canceled.
ExpectedEmitted ==
    Emitted(SortByLabel(MapSeq(FilterRequests(searchConfig, networkLog), ResultFor)))

C29_OverlappingRunsIndependent ==
    /\ [][runB' # runB => UNCHANGED searchVars]_vars
    /\ [][searchVars' # searchVars => runB' = runB]_vars
    /\ [][Next \/ UNCHANGED searchVars]_vars
    /\ [][NextB \/ runB' = runB]_vars
    /\ []((pc = "finished" /\ ~progress.canceled) =>
              /\ OnFinishedCalls = << TRUE >>
              /\ progress.worked = FilteredCount
              /\ OnResultCalls = ExpectedEmitted)
    /\ []((runB.pc = "finished" /\ ~runB.progress.canceled) =>
              /\ ArgsOfB("onFinished") = << TRUE >>
              /\ runB.progress.worked = FilteredCount
              /\ ArgsOfB("onResult") = ExpectedEmitted)

\* Both runs under way at once: the second, canceled with body searches in
\* flight, has one task that returned the absent result; the first, not
\* canceled, has a task that went on to its result after that.
C29_Witness ==
    /\ pc = "joining"
    /\ ~progress.canceled
    /\ runB.pc = "joining"
    /\ runB.progress.canceled
    /\ \E k \in DOMAIN runB.tasks :
           runB.tasks[k].state = "returned" /\ runB.tasks[k].result = Null
    /\ \E k \in DOMAIN runB.tasks : runB.tasks[k].state = "awaiting"
    /\ \E k \in DOMAIN tasks : tasks[k].state = "returned" /\ tasks[k].result # Null
    /\ \E k \in DOMAIN tasks : tasks[k].state = "awaiting"
    /\ progress.worked = 1
    /\ runB.progress.worked = 0

(***************************************************************************)
(* C30.  issueKindViewSortPriority is a consistent comparator for the      *)
(* total order PageError < BreakingChange < Improvement: over all pairs of *)
(* kinds it returns 0 exactly when the kinds are equal and a negative      *)
(* number exactly when the first kind stands before the second, it is      *)
(* antisymmetric (compare(a, b) = -compare(b, a)) and it is transitive.    *)
(***************************************************************************)
IssueKindOrder(kind) ==
    CASE kind = "PageError" -> 1
      [] kind = "BreakingChange" -> 2
      [] kind = "Improvement" -> 3

C30_ConsistentComparator ==
    /\ \A p \in priorities :
           /\ p.value \in {-1, 0, 1}
           /\ p.value = 0 <=> p.a = p.b
           /\ p.value < 0 <=> IssueKindOrder(p.a) < IssueKindOrder(p.b)
    /\ \A p, q \in priorities :
           (p.a = q.b /\ p.b = q.a) => p.value = -q.value
    /\ \A p, q, r \in priorities :
           (p.b = q.a /\ r.a = p.a /\ r.b = q.b /\ p.value <= 0 /\ q.value <= 0) =>
               /\ r.value <= 0
               /\ (p.value < 0 \/ q.value < 0) => r.value < 0

\* All nine pairs of the three kinds have been compared.
C30_Witness ==
    /\ {kindViews[i] : i \in DOMAIN kindViews} = IssueKinds
    /\ Cardinality(priorities) = 9
    /\ [a |-> "BreakingChange", b |-> "PageError", value |-> 1] \in priorities

=============================================================================
